---- MODULE Spec2Model ----
(***************************************************************************)
(* A model of package errors (src/errors.go): error records with a cause   *)
(* and a captured origin, the constructors New / Propagate / Create, the   *)
(* chain walkers Unwrap / Cause / Is / As, the renderers formatFull /      *)
(* formatShort behind Error.Format, and the path normalizer StripPath.     *)
(*                                                                         *)
(* Strings are sequences of one-character strings; the fixed pieces the    *)
(* renderers emit (" --- at ", "Caused by: ", ...) are single tokens.      *)
(* Error values live in `heap`; an error is named by its index, 0 is nil.  *)
(***************************************************************************)
EXTENDS Integers, Sequences, FiniteSets, TLC

VARIABLES heap, DefaultFormat, GOPATH, last

vars == <<heap, DefaultFormat, GOPATH, last>>

(***************************************************************************)
(* Strings                                                                 *)
(***************************************************************************)
NL == "\n"

HasPrefix(s, p) == Len(p) <= Len(s) /\ SubSeq(s, 1, Len(p)) = p

HasSuffix(s, p) == Len(p) <= Len(s) /\ SubSeq(s, Len(s) - Len(p) + 1, Len(s)) = p

\* s[n:]
SliceFrom(s, n) == SubSeq(s, n + 1, Len(s))

\* strings.Index / strings.LastIndex for a one-character needle: 0-based, -1 if absent
Index(s, c) ==
    IF \E i \in 1..Len(s) : s[i] = c
    THEN (CHOOSE i \in 1..Len(s) : s[i] = c /\ \A j \in 1..(i - 1) : s[j] # c) - 1
    ELSE -1

LastIndex(s, c) ==
    IF \E i \in 1..Len(s) : s[i] = c
    THEN (CHOOSE i \in 1..Len(s) : s[i] = c /\ \A j \in (i + 1)..Len(s) : s[j] # c) - 1
    ELSE -1

\* strings.Replace(s, c, "", 1)
ReplaceFirst(s, c) ==
    LET i == Index(s, c)
    IN  IF i < 0 THEN s ELSE SubSeq(s, 1, i) \o SubSeq(s, i + 2, Len(s))

Digit(d) == CASE d = 0 -> "0" [] d = 1 -> "1" [] d = 2 -> "2" [] d = 3 -> "3"
              [] d = 4 -> "4" [] d = 5 -> "5" [] d = 6 -> "6" [] d = 7 -> "7"
              [] d = 8 -> "8" [] d = 9 -> "9"

\* fmt's %v of a non-negative int
RECURSIVE Itoa(_)
Itoa(n) == IF n < 10 THEN <<Digit(n)>> ELSE Itoa(n \div 10) \o <<Digit(n % 10)>>

(***************************************************************************)
(* StripPath (errors.go 26-41)                                             *)
(***************************************************************************)
PathSeparator == "/"
PathListSeparator == ":"
SrcDir == <<"s", "r", "c">>

\* filepath.SplitList: "" gives no entries, otherwise split at every ':'
RECURSIVE SplitAt(_, _)
SplitAt(s, c) ==
    LET i == Index(s, c)
    IN  IF i < 0 THEN <<s>> ELSE <<SubSeq(s, 1, i)>> \o SplitAt(SliceFrom(s, i + 1), c)

SplitList(path) == IF path = <<>> THEN <<>> ELSE SplitAt(path, PathListSeparator)

\* filepath.Clean, for paths without "." and ".." elements: runs of separators
\* collapse to one and a trailing separator is dropped (except for the root)
RECURSIVE Squeeze(_)
Squeeze(s) ==
    IF Len(s) < 2 THEN s
    ELSE IF s[1] = PathSeparator /\ s[2] = PathSeparator THEN Squeeze(Tail(s))
    ELSE <<s[1]>> \o Squeeze(Tail(s))

Clean(s) ==
    LET q == Squeeze(s)
    IN  IF Len(q) > 1 /\ q[Len(q)] = PathSeparator THEN SubSeq(q, 1, Len(q) - 1) ELSE q

\* filepath.Join(a, b): empty elements are ignored, the result is cleaned
Join(a, b) ==
    IF a = <<>> THEN Clean(b)
    ELSE IF b = <<>> THEN Clean(a)
    ELSE Clean(a \o <<PathSeparator>> \o b)

MaxOf(S) == IF S = {} THEN 0 ELSE CHOOSE m \in S : \A x \in S : x <= m

\* sort.SliceStable(dirs, len(dirs[i]) > len(dirs[j])): longest first, ties in order
RECURSIVE LongestFirstFrom(_, _)
LongestFirstFrom(dirs, n) ==
    IF n < 0 THEN <<>>
    ELSE SelectSeq(dirs, LAMBDA d : Len(d) = n) \o LongestFirstFrom(dirs, n - 1)

SortLongestFirst(dirs) ==
    LongestFirstFrom(dirs, MaxOf({Len(dirs[i]) : i \in 1..Len(dirs)}))

\* the loop of StripPath over the sorted dirs
RECURSIVE StripLoop(_, _)
StripLoop(dirs, p) ==
    IF dirs = <<>> THEN p
    ELSE LET src == Join(Head(dirs), SrcDir) \o <<PathSeparator>>
         IN  IF HasPrefix(p, src \o src)
             THEN SliceFrom(p, Len(src) + 1)
             ELSE StripLoop(Tail(dirs), p)

StripPath(gopath, p) == StripLoop(SortLongestFirst(SplitList(gopath)), p)

(***************************************************************************)
(* Error values.  heap[i] is either a record of this library               *)
(* (kind = "Error": the struct Error, errors.go 43-50) or a foreign error  *)
(* (kind = "foreign": any other implementation of the error interface,     *)
(* described by its dynamic type, its Error() text and the optional        *)
(* Unwrap / Is / As methods the walkers look for).                         *)
(***************************************************************************)
Nil == 0

FormatFull == "FormatFull"
FormatShort == "FormatShort"

\* dynamic types of error values; "G" stands for a non-comparable value type
ErrorPtr == "*Error"
ForeignTypes == {"*F", "*W", "*M", "G"}

\* reflect.Type.Comparable of an error value's dynamic type
Comparable(typ) == typ # "G"

\* pointee types a caller can hand to As
InterfaceTypes == {"error", "Temporary"}
ConcreteTypes == {ErrorPtr, "*F", "*W", "*M", "G", "int"}

\* reflect.Type.Implements: which concrete types have the interface's methods
Implements(typ, iface) ==
    CASE iface = "error" -> typ \in {ErrorPtr} \cup ForeignTypes
      [] iface = "Temporary" -> typ \in {"*W"}
      [] OTHER -> FALSE

\* reflect.Type.AssignableTo for the types above
AssignableTo(typ, to) ==
    \/ typ = to
    \/ to \in InterfaceTypes /\ Implements(typ, to)

\* the struct literal of Create (errors.go 79-82) with the origin filled in later
Error(msg, cause, file, function, line) ==
    [kind |-> "Error", Message |-> msg, Cause |-> cause,
     File |-> file, Function |-> function, Line |-> line]

IsError(h, e) == e # Nil /\ h[e].kind = "Error"

TypeOf(h, e) == IF h[e].kind = "Error" THEN ErrorPtr ELSE h[e].typ

\* err.(interface{ Unwrap() error }): Error has no such method
HasUnwrap(h, e) == e # Nil /\ h[e].kind = "foreign" /\ h[e].hasUnwrap

\* err.(interface{ Is(error) bool }) and the method's answer for target
HasIs(h, e) == e # Nil /\ h[e].kind = "foreign" /\ h[e].hasIs

IsMethod(h, e, target) == TypeOf(h, target) \in h[e].isTypes

\* err.(interface{ As(interface{}) bool }); the method answers true for the
\* pointee types in asTypes and then writes a value of its own making into the
\* pointee
HasAs(h, e) == e # Nil /\ h[e].kind = "foreign" /\ h[e].hasAs

\* a value a foreign As method made out of error e (not an element of the heap)
MadeBy(e) == 0 - e

AsMethod(h, e, elem, pointee) ==
    [ret |-> elem \in h[e].asTypes,
     pointee |-> IF elem \in h[e].asTypes THEN MadeBy(e) ELSE pointee]

(***************************************************************************)
(* Origin capture (errors.go 84-106).  A call stack is a sequence of       *)
(* frames, innermost first; runtime.Caller(skip) is element skip + 1.      *)
(***************************************************************************)
Frame(file, line, hasFunc, name) ==
    [file |-> file, line |-> line, hasFunc |-> hasFunc, name |-> name]

CallerSkip == 2

\* runtime.Caller(skip)
Caller(stack, skip) ==
    IF skip + 1 <= Len(stack)
    THEN [ok |-> TRUE, frame |-> stack[skip + 1]]
    ELSE [ok |-> FALSE, frame |-> Frame(<<>>, 0, FALSE, <<>>)]

\* errors.go 100-105
SimplifyFuncName(name) ==
    LET a == SliceFrom(name, LastIndex(name, "/") + 1)
        b == SliceFrom(a, Index(a, ".") + 1)
        c == ReplaceFirst(b, "(")
        d == ReplaceFirst(c, "*")
    IN  ReplaceFirst(d, ")")

\* Create asking for its own caller instead of its caller's caller
CreateRecordSkipOne(gopath, cause, msg, stack) ==
    LET c == Caller(stack, 1)
    IN  IF ~c.ok THEN Error(msg, cause, <<>>, <<>>, 0)
        ELSE IF ~c.frame.hasFunc
             THEN Error(msg, cause, StripPath(gopath, c.frame.file), <<>>, c.frame.line)
             ELSE Error(msg, cause, StripPath(gopath, c.frame.file),
                        SimplifyFuncName(c.frame.name), c.frame.line)

\* the record Create builds for a cause, a formatted message and the stack at
\* its call of runtime.Caller
CreateRecord(gopath, cause, msg, stack) ==
    LET c == Caller(stack, CallerSkip)
    IN  IF ~c.ok THEN Error(msg, cause, <<>>, <<>>, 0)
        ELSE IF ~c.frame.hasFunc
             THEN Error(msg, cause, StripPath(gopath, c.frame.file), <<>>, c.frame.line)
             ELSE Error(msg, cause, StripPath(gopath, c.frame.file),
                        SimplifyFuncName(c.frame.name), c.frame.line)

\* the frames of this package on the stack when Create asks for its caller
LibFile == <<"/", "m", "/", "e">>
CreateFrame == Frame(LibFile, 84, TRUE, <<"m", "/", "e", ".", "C">>)
NewFrame == Frame(LibFile, 54, TRUE, <<"m", "/", "e", ".", "N">>)
PropagateFrame == Frame(LibFile, 63, TRUE, <<"m", "/", "e", ".", "P">>)

(***************************************************************************)
(* Chain walkers (errors.go 66-75, 111-180)                                *)
(***************************************************************************)
\* Unwrap that forgets the Unwrap method of foreign errors
UnwrapRecordsOnly(h, err) ==
    IF IsError(h, err) /\ h[err].Cause # Nil THEN h[err].Cause ELSE Nil

Unwrap(h, err) ==
    IF IsError(h, err) /\ h[err].Cause # Nil THEN h[err].Cause
    ELSE IF HasUnwrap(h, err) THEN h[err].unwrap
    ELSE Nil

NextOf(h, err) == IF h[err].kind = "Error" THEN h[err].Cause ELSE h[err].unwrap

\* Cause that walks with Unwrap, through foreign wrappers too
RECURSIVE CauseThroughUnwrap(_, _)
CauseThroughUnwrap(h, err) ==
    IF err # Nil /\ (IsError(h, err) \/ HasUnwrap(h, err)) /\ NextOf(h, err) # Nil
    THEN CauseThroughUnwrap(h, NextOf(h, err))
    ELSE err

RECURSIVE Cause(_, _)
Cause(h, err) ==
    IF IsError(h, err) /\ h[err].Cause # Nil THEN Cause(h, h[err].Cause) ELSE err

\* the loop of Is (errors.go 133-145)
RECURSIVE IsLoop(_, _, _, _)
IsLoop(h, err, target, comparable) ==
    IF comparable /\ err = target THEN TRUE
    ELSE IF HasIs(h, err) /\ IsMethod(h, err, target) THEN TRUE
    ELSE IF Unwrap(h, err) = Nil THEN FALSE
    ELSE IsLoop(h, Unwrap(h, err), target, comparable)

Is(h, err, target) ==
    IF target = Nil THEN err = Nil
    ELSE IsLoop(h, err, target, Comparable(TypeOf(h, target)))

\* A target handed to As: kind is "nil" (the nil interface), "nonptr", "nilptr"
\* or "ptr"; elem is the pointee type of a pointer.
Target(kind, elem) == [kind |-> kind, elem |-> elem]

\* errors.go 150-164: is the target one As walks the chain for
ValidTarget(target) ==
    /\ target.kind # "nil"
    /\ target.kind = "ptr"
    /\ (target.elem \in InterfaceTypes \/ Implements(target.elem, "error"))

\* the loop of As without the As methods of the links
RECURSIVE AsLoopTypeOnly(_, _, _, _)
AsLoopTypeOnly(h, err, elem, pointee) ==
    IF err = Nil THEN [ret |-> FALSE, pointee |-> pointee]
    ELSE IF AssignableTo(TypeOf(h, err), elem) THEN [ret |-> TRUE, pointee |-> err]
    ELSE AsLoopTypeOnly(h, Unwrap(h, err), elem, pointee)

\* the loop of As (errors.go 166-179); pointee is the value behind the target
RECURSIVE AsLoop(_, _, _, _)
AsLoop(h, err, elem, pointee) ==
    IF err = Nil THEN [ret |-> FALSE, pointee |-> pointee]
    ELSE IF AssignableTo(TypeOf(h, err), elem) THEN [ret |-> TRUE, pointee |-> err]
    ELSE IF HasAs(h, err)
         THEN LET m == AsMethod(h, err, elem, pointee)
              IN  IF m.ret THEN m ELSE AsLoop(h, Unwrap(h, err), elem, m.pointee)
         ELSE AsLoop(h, Unwrap(h, err), elem, pointee)

As(h, err, target, pointee) ==
    IF ~ValidTarget(target) THEN [ret |-> FALSE, pointee |-> pointee]
    ELSE AsLoop(h, err, target.elem, pointee)

(***************************************************************************)
(* Formatters (errors.go 182-280)                                          *)
(***************************************************************************)
At == " --- at "
Dashes == " ---"
CausedBy == "Caused by: "
ColonSpace == ": "

\* the closure newline of formatFull (errors.go 222-226)
newline(s) == IF s # <<>> /\ ~HasSuffix(s, <<NL>>) THEN s \o <<NL>> ELSE s

\* fmt.Sprintf(" --- at %v:%v ---", ...) and its variant with the function
OriginLine(r) ==
    IF r.Function = <<>>
    THEN <<At>> \o r.File \o <<":">> \o Itoa(r.Line) \o <<Dashes>>
    ELSE <<At>> \o r.File \o <<":">> \o Itoa(r.Line) \o <<" (">> \o r.Function
         \o <<")">> \o <<Dashes>>

\* curr.Cause.Error() of a foreign cause
ErrorText(h, e) == h[e].text

\* "Caused by: " written for a record with an empty message too
CauseLineAlways(h, cause, s) ==
    IF cause = Nil THEN s
    ELSE IF ~IsError(h, cause) THEN newline(s) \o <<CausedBy>> \o ErrorText(h, cause)
    ELSE newline(s) \o <<CausedBy>>

\* what the cause of the current link adds (errors.go 241-249)
CauseLine(h, cause, s) ==
    IF cause = Nil THEN s
    ELSE IF ~IsError(h, cause) THEN newline(s) \o <<CausedBy>> \o ErrorText(h, cause)
    ELSE IF h[cause].Message # <<>> THEN newline(s) \o <<CausedBy>>
    ELSE newline(s)

\* one pass of the loop of formatFull for curr, with s built so far
RECURSIVE FullLoop(_, _, _)
FullLoop(h, curr, s) ==
    LET s1 == s \o h[curr].Message
        s2 == IF h[curr].File # <<>> THEN newline(s1) \o OriginLine(h[curr]) ELSE s1
        s3 == CauseLine(h, h[curr].Cause, s2)
    IN  IF IsError(h, h[curr].Cause) THEN FullLoop(h, h[curr].Cause, s3) ELSE s3

formatFull(h, e) == FullLoop(h, e, <<>>)

\* concat that does not look at msg
concatAlways(s, msg) == IF s # <<>> THEN s \o <<ColonSpace>> \o msg ELSE s \o msg

\* the closure concat of formatShort (errors.go 259-264)
concat(s, msg) == IF s # <<>> /\ msg # <<>> THEN s \o <<ColonSpace>> \o msg ELSE s \o msg

RECURSIVE ShortLoop(_, _, _)
ShortLoop(h, curr, s) ==
    LET s1 == concat(s, h[curr].Message)
    IN  IF IsError(h, h[curr].Cause) THEN ShortLoop(h, h[curr].Cause, s1)
        ELSE IF h[curr].Cause # Nil THEN concat(s1, ErrorText(h, h[curr].Cause))
        ELSE s1

formatShort(h, e) == ShortLoop(h, e, <<>>)

\* A directive as fmt hands it to Format: the flags set, width and precision
\* (-1 when absent) and the verb.
Directive(flags, width, precision, verb) ==
    [flags |-> flags, width |-> width, precision |-> precision, verb |-> verb]

FlagOrder == <<"-", "+", "#", " ", "0">>

\* the mode chosen without the tests that the other flag is absent
FormatTextOneFlag(h, e, d, defaultFormat) ==
    IF "+" \in d.flags /\ d.verb = "s" THEN formatFull(h, e)
    ELSE IF "#" \in d.flags /\ d.verb = "s" THEN formatShort(h, e)
    ELSE IF defaultFormat = FormatFull THEN formatFull(h, e)
    ELSE formatShort(h, e)

\* errors.go 190-198: the text in the mode the directive or DefaultFormat selects
FormatText(h, e, d, defaultFormat) ==
    IF "+" \in d.flags /\ "#" \notin d.flags /\ d.verb = "s" THEN formatFull(h, e)
    ELSE IF "#" \in d.flags /\ "+" \notin d.flags /\ d.verb = "s" THEN formatShort(h, e)
    ELSE IF defaultFormat = FormatFull THEN formatFull(h, e)
    ELSE formatShort(h, e)

\* errors.go 200-213: the directive rebuilt for the text
FormatString(d) ==
    <<"%">> \o SelectSeq(FlagOrder, LAMBDA f : f \in d.flags)
    \o (IF d.width >= 0 THEN Itoa(d.width) ELSE <<>>)
    \o (IF d.precision >= 0 THEN <<".">> \o Itoa(d.precision) ELSE <<>>)
    \o <<d.verb>>

\* Format: the arguments of its final fmt.Fprintf(f, formatString, text)
Format(h, e, d, defaultFormat) ==
    [format |-> FormatString(d), text |-> FormatText(h, e, d, defaultFormat)]

\* Error(): fmt.Sprint(e) reaches Format with no flags and the verb v, and
\* "%v" of a string is the string
PlainV == Directive({}, -1, -1, "v")

ErrorString(h, e, defaultFormat) == Format(h, e, PlainV, defaultFormat).text

(***************************************************************************)
(* Constructors (errors.go 52-64, 77-109).  `above` is the stack above     *)
(* Create's own frame, `callers` the stack above New's or Propagate's.     *)
(* Each returns the heap after the call and the error returned.            *)
(***************************************************************************)
Create(h, gopath, cause, msg, above) ==
    [heap |-> Append(h, CreateRecord(gopath, cause, msg, <<CreateFrame>> \o above)),
     ret |-> Len(h) + 1]

New(h, gopath, msg, callers) ==
    Create(h, gopath, Nil, msg, <<NewFrame>> \o callers)

\* Propagate without the test for a nil cause
PropagateAlways(h, gopath, cause, msg, callers) ==
    Create(h, gopath, cause, msg, <<PropagateFrame>> \o callers)

\* Propagate that annotates a record in place instead of wrapping it
PropagateInPlace(h, gopath, cause, msg, callers) ==
    IF cause = Nil THEN [heap |-> h, ret |-> Nil]
    ELSE IF IsError(h, cause)
         THEN [heap |-> [h EXCEPT ![cause].Message = msg \o <<ColonSpace>> \o @], ret |-> cause]
         ELSE Create(h, gopath, cause, msg, <<PropagateFrame>> \o callers)

Propagate(h, gopath, cause, msg, callers) ==
    IF cause = Nil THEN [heap |-> h, ret |-> Nil]
    ELSE Create(h, gopath, cause, msg, <<PropagateFrame>> \o callers)

(***************************************************************************)
(* Foreign errors the callers bring                                        *)
(***************************************************************************)
Foreign(typ, text, hasUnwrap, hasIs, isTypes, hasAs, asTypes) ==
    [kind |-> "foreign", typ |-> typ, text |-> text,
     hasUnwrap |-> hasUnwrap, unwrap |-> Nil,
     hasIs |-> hasIs, isTypes |-> isTypes,
     hasAs |-> hasAs, asTypes |-> asTypes]

\* an error with no method but Error()
Plain == Foreign("*F", <<"x">>, FALSE, FALSE, {}, FALSE, {})
\* the same with an empty text
Silent == Foreign("*F", <<>>, FALSE, FALSE, {}, FALSE, {})
\* the same with a text that ends in a newline
Trailing == Foreign("*F", <<"y", NL>>, FALSE, FALSE, {}, FALSE, {})
\* a wrapper with an Unwrap method (such as fs.PathError)
Wrapper == Foreign("*W", <<"w">>, TRUE, FALSE, {}, FALSE, {})
\* an error of a type that is not comparable
NonComparable == Foreign("G", <<"g">>, FALSE, FALSE, {}, FALSE, {})
\* an error with an Is method that accepts every target of type G, and an As
\* method that accepts a pointer to G
Methodful == Foreign("*M", <<"m">>, FALSE, TRUE, {"G"}, TRUE, {"G"})

(***************************************************************************)
(* State machine.  `last` records the latest call: its arguments and what  *)
(* it returned.                                                            *)
(***************************************************************************)
MaxHeap == 3
MaxChain == 3

UserFile == <<"/", "g", "/", "s", "r", "c", "/", "p", "/", "a">>
\* a method with a pointer receiver, a plain function, a frame whose function
\* runtime.FuncForPC does not know
MethodSite == Frame(UserFile, 12, TRUE, <<"h", ".", "c", "/", "p", ".", "(", "*", "T", ")", ".", "M">>)
FuncSite == Frame(UserFile, 107, TRUE, <<"h", ".", "c", "/", "p", ".", "N">>)
NoFuncSite == Frame(UserFile, 9, FALSE, <<>>)

AllTargets ==
    {Target("nil", "none"), Target("nonptr", "*F"), Target("nilptr", "*F")}
    \cup {Target("ptr", t) : t \in InterfaceTypes \cup ConcreteTypes}

AllDirectives ==
    {Directive(f, -1, -1, "s") : f \in {{}, {"+"}, {"#"}, {"+", "#"}}}
    \cup {Directive(f, -1, -1, "v") : f \in {{}, {"+"}, {"#"}}}
    \cup {Directive({"-", "+"}, 12, -1, "s"), Directive({"-", " ", "0"}, 12, 3, "d")}

\* inputs of the walkers' model: every shape of foreign error, target and
\* directive; one message, one call site
WalkInputs ==
    [max |-> MaxHeap,
     gopaths |-> {<<"/", "g">>},
     msgs |-> {<<"a">>},
     callers |-> {<<NoFuncSite, NoFuncSite>>},
     foreign |-> {Plain, Wrapper, NonComparable, Methodful},
     directives |-> AllDirectives]

\* inputs of the formatters' model: every shape of message, origin and foreign
\* text
FmtInputs ==
    [max |-> MaxChain,
     gopaths |-> {<<"/", "g">>},
     msgs |-> {<<>>, <<"a">>, <<"b", NL>>},
     callers |-> {<<>>, <<NoFuncSite>>, <<MethodSite, FuncSite>>},
     foreign |-> {Plain, Silent, Trailing},
     directives |-> {Directive({"+"}, -1, -1, "s"), Directive({"#"}, -1, -1, "s")}]

\* inputs of the path normalizer's model
GoPaths ==
    {<<>>,
     <<"/", "g">>,
     <<"/", "g", "/">>,
     <<"/", "w">>,
     <<"/", "g", ":", "/", "g", "/", "s", "r", "c", "/", "x">>,
     <<"/", "g", "/", "s", "r", "c", "/", "x", ":", "/", "g">>}

PathHeads ==
    {<<>>,
     <<"/", "o", "/">>,
     <<"/", "g", "/", "s", "r", "c", "/">>,
     <<"/", "w", "/", "s", "r", "c", "/">>,
     <<"/", "g", "/", "s", "r", "c", "/", "x", "/", "s", "r", "c", "/">>,
     <<"/", "g", "/", "s", "r", "c", "/", "/", "g", "/", "s", "r", "c", "/">>}

PathTails == {<<"f">>, <<"p", "/", "f">>, <<"s", "r", "c", "/", "f">>}

Paths == {h \o t : h \in PathHeads, t \in PathTails}

InitOver(in) ==
    /\ heap = <<>>
    /\ DefaultFormat = FormatFull
    /\ GOPATH \in in.gopaths
    /\ last = [op |-> "none"]

\* the error a call is handed: nil or the newest error (every error was the
\* newest one when it was made, and the heap only grows)
ErrArgs == {Nil, Len(heap)}

NewCall(in) ==
    \E msg \in in.msgs, callers \in in.callers :
        LET r == New(heap, GOPATH, msg, callers)
        IN  /\ Len(heap) < in.max
            /\ heap' = r.heap
            /\ last' = [op |-> "New", cause |-> Nil, msg |-> msg, callers |-> callers,
                        before |-> Len(heap), ret |-> r.ret]
            /\ UNCHANGED <<DefaultFormat, GOPATH>>

PropagateCall(in) ==
    \E cause \in ErrArgs, msg \in in.msgs, callers \in in.callers :
        LET r == Propagate(heap, GOPATH, cause, msg, callers)
        IN  /\ Len(heap) < in.max
            /\ heap' = r.heap
            /\ last' = [op |-> "Propagate", cause |-> cause, msg |-> msg,
                        callers |-> callers, before |-> Len(heap), ret |-> r.ret]
            /\ UNCHANGED <<DefaultFormat, GOPATH>>

\* Create called directly: its caller's caller is at the top of the pair
CreateCall(in) ==
    \E cause \in 0..Len(heap), msg \in in.msgs, callers \in in.callers :
        LET r == Create(heap, GOPATH, cause, msg, callers)
        IN  /\ Len(heap) < in.max
            /\ callers # <<>>
            /\ heap' = r.heap
            /\ last' = [op |-> "Create", cause |-> cause, msg |-> msg,
                        callers |-> callers, before |-> Len(heap), ret |-> r.ret]
            /\ UNCHANGED <<DefaultFormat, GOPATH>>

\* the caller makes a foreign error; a wrapper wraps an error made before
ForeignError(in) ==
    \E f \in in.foreign, u \in ErrArgs :
        /\ Len(heap) < in.max
        /\ f.hasUnwrap \/ u = Nil
        /\ heap' = Append(heap, [f EXCEPT !.unwrap = u])
        /\ last' = [op |-> "ForeignError", ret |-> Len(heap) + 1]
        /\ UNCHANGED <<DefaultFormat, GOPATH>>

UnwrapCall ==
    \E err \in ErrArgs :
        /\ last' = [op |-> "Unwrap", err |-> err, ret |-> Unwrap(heap, err)]
        /\ UNCHANGED <<heap, DefaultFormat, GOPATH>>

CauseCall ==
    \E err \in ErrArgs :
        /\ last' = [op |-> "Cause", err |-> err, ret |-> Cause(heap, err)]
        /\ UNCHANGED <<heap, DefaultFormat, GOPATH>>

IsCall ==
    \E err \in ErrArgs, target \in 0..Len(heap) :
        /\ last' = [op |-> "Is", err |-> err, target |-> target,
                    ret |-> Is(heap, err, target)]
        /\ UNCHANGED <<heap, DefaultFormat, GOPATH>>

\* the value behind a pointer target before the call: nil, or the first error
\* when the pointee type can hold it
Pointees(target) ==
    {Nil} \cup {e \in {1} : /\ Len(heap) >= 1
                            /\ target.kind = "ptr"
                            /\ AssignableTo(TypeOf(heap, e), target.elem)}

AsCall ==
    \E err \in ErrArgs, target \in AllTargets :
        \E pointee \in Pointees(target) :
            LET r == As(heap, err, target, pointee)
            IN  /\ last' = [op |-> "As", err |-> err, target |-> target,
                            before |-> pointee, ret |-> r.ret, pointee |-> r.pointee]
                /\ UNCHANGED <<heap, DefaultFormat, GOPATH>>

\* fmt renders a record under a directive
FormatCall(in) ==
    \E e \in ErrArgs, d \in in.directives :
        /\ IsError(heap, e)
        /\ last' = [op |-> "Format", err |-> e, directive |-> d,
                    ret |-> Format(heap, e, d, DefaultFormat)]
        /\ UNCHANGED <<heap, DefaultFormat, GOPATH>>

ErrorCall ==
    \E e \in ErrArgs :
        /\ IsError(heap, e)
        /\ last' = [op |-> "Error", err |-> e, ret |-> ErrorString(heap, e, DefaultFormat)]
        /\ UNCHANGED <<heap, DefaultFormat, GOPATH>>

\* the caller assigns the global DefaultFormat (errors.go 24)
SetDefaultFormat ==
    \E f \in {FormatFull, FormatShort} :
        /\ f # DefaultFormat
        /\ DefaultFormat' = f
        /\ last' = [op |-> "SetDefaultFormat"]
        /\ UNCHANGED <<heap, GOPATH>>

StripPathCall ==
    \E p \in Paths :
        /\ last' = [op |-> "StripPath", p |-> p, ret |-> StripPath(GOPATH, p)]
        /\ UNCHANGED <<heap, DefaultFormat, GOPATH>>

Step(in) ==
    \/ NewCall(in)
    \/ PropagateCall(in)
    \/ CreateCall(in)
    \/ ForeignError(in)
    \/ UnwrapCall
    \/ CauseCall
    \/ IsCall
    \/ AsCall
    \/ FormatCall(in)
    \/ ErrorCall
    \/ SetDefaultFormat

\* the walkers' model: every operation, over WalkInputs
Init == InitOver(WalkInputs)
Next == Step(WalkInputs)
Spec == Init /\ [][Next]_vars

\* the formatters' model: chains are built and rendered, over FmtInputs
InitFmt == InitOver(FmtInputs)
NextFmt ==
    \/ NewCall(FmtInputs)
    \/ PropagateCall(FmtInputs)
    \/ ForeignError(FmtInputs)
    \/ FormatCall(FmtInputs)
    \/ ErrorCall
SpecFmt == InitFmt /\ [][NextFmt]_vars

\* the path normalizer's model: StripPath over Paths, under every GOPATH
InitPath ==
    /\ heap = <<>>
    /\ DefaultFormat = FormatFull
    /\ GOPATH \in GoPaths
    /\ last = [op |-> "none"]
NextPath == StripPathCall
SpecPath == InitPath /\ [][NextPath]_vars

(***************************************************************************)
(* Properties.  The chain of an error is written here from the fields of   *)
(* the heap, not through the walkers under test.                           *)
(***************************************************************************)
\* the link after e: a record's cause, a foreign error's Unwrap() if it has one
NextLink(e) ==
    IF heap[e].kind = "Error" THEN heap[e].Cause
    ELSE IF heap[e].hasUnwrap THEN heap[e].unwrap
    ELSE Nil

\* the links of err, outermost first (empty for nil)
RECURSIVE ChainFrom(_)
ChainFrom(e) == IF e = Nil THEN <<>> ELSE <<e>> \o ChainFrom(NextLink(e))

\* the library records at the head of err's chain, up to the first link that
\* is not one
RECURSIVE RecordsFrom(_)
RecordsFrom(e) ==
    IF e = Nil \/ heap[e].kind # "Error" THEN <<>> ELSE <<e>> \o RecordsFrom(heap[e].Cause)

Range(q) == {q[i] : i \in 1..Len(q)}

Last(q) == q[Len(q)]

\* C1: Propagate(cause, msg) returns nil and creates no record when cause is
\* nil; otherwise it returns a new library record r with Unwrap(r) = cause.
C1_PropagateWraps ==
    last.op = "Propagate" =>
        IF last.cause = Nil
        THEN last.ret = Nil /\ Len(heap) = last.before
        ELSE /\ last.ret = Len(heap)
             /\ Len(heap) = last.before + 1
             /\ heap[last.ret].kind = "Error"
             /\ heap[last.ret].Message = last.msg
             /\ Unwrap(heap, last.ret) = last.cause

C1_Witness ==
    /\ last.op = "Propagate"
    /\ last.cause # Nil
    /\ heap[last.cause].kind = "foreign"
    /\ Unwrap(heap, last.ret) = last.cause

\* C2 as stated: for a non-nil target, Is(err, target) is true exactly when
\* target is err or a link reached from err by repeated Unwrap.
C2_IsIffInChain ==
    (last.op = "Is" /\ last.target # Nil) =>
        (last.ret <=> last.target \in Range(ChainFrom(last.err)))

\* does link l match target the way Is tests it
Matches(l, target) ==
    \/ l = target /\ Comparable(TypeOf(heap, target))
    \/ heap[l].kind = "foreign" /\ heap[l].hasIs /\ TypeOf(heap, target) \in heap[l].isTypes

\* C2 amended: for a non-nil target, Is(err, target) is true exactly when some
\* link of err's chain equals target, target's type being comparable, or has an
\* Is method that answers true for target.
C2_IsIffSomeLinkMatches ==
    (last.op = "Is" /\ last.target # Nil) =>
        (last.ret <=> \E l \in Range(ChainFrom(last.err)) : Matches(l, last.target))

C2_Witness ==
    /\ last.op = "Is"
    /\ last.ret
    /\ Len(heap) = 3
    /\ heap[3].kind = "Error"
    /\ heap[2].kind = "foreign"
    /\ last.err = 3
    /\ last.target = 1
    /\ ChainFrom(3) = <<3, 2, 1>>

\* the links of a chain assignable to a pointee type
Assignable(chain, elem) ==
    SelectSeq(chain, LAMBDA l : AssignableTo(TypeOf(heap, l), elem))

\* C3 as stated: for a valid target, As is true exactly when some link of the
\* chain is assignable to the pointee type; then the pointee holds the
\* outermost such link; when As is false the pointee is unchanged.
C3_AsIffAssignable ==
    (last.op = "As" /\ ValidTarget(last.target)) =>
        LET fit == Assignable(ChainFrom(last.err), last.target.elem)
        IN  /\ last.ret <=> fit # <<>>
            /\ last.ret => last.pointee = Head(fit)
            /\ ~last.ret => last.pointee = last.before

\* does link l have an As method that answers true for the pointee type
Accepts(l, elem) ==
    heap[l].kind = "foreign" /\ heap[l].hasAs /\ elem \in heap[l].asTypes

\* C3 amended: for a valid target, As is true exactly when some link of the
\* chain is assignable to the pointee type or has an As method that answers
\* true for the target; when the first such link is an assignable one the
\* pointee holds it; when As is false it has assigned nothing to the pointee.
C3_AsIffSomeLinkSettles ==
    (last.op = "As" /\ ValidTarget(last.target)) =>
        LET elem == last.target.elem
            settle == SelectSeq(ChainFrom(last.err),
                                LAMBDA l : AssignableTo(TypeOf(heap, l), elem) \/ Accepts(l, elem))
        IN  /\ last.ret <=> settle # <<>>
            /\ (last.ret /\ AssignableTo(TypeOf(heap, Head(settle)), elem))
                   => last.pointee = Head(settle)
            /\ ~last.ret => last.pointee = last.before

C3_Witness ==
    /\ last.op = "As"
    /\ last.target = Target("ptr", "*W")
    /\ last.ret
    /\ last.before = Nil
    /\ last.err = 3
    /\ heap[3].kind = "Error"
    /\ heap[3].Cause = 2
    /\ last.pointee = 2

\* C4: Cause(err) is the element reached from err by following the causes of
\* library records while there is one: a record without a cause, or an error
\* that is no record of the library, returned as it is even if it can unwrap.
C4_CauseIsRoot ==
    last.op = "Cause" =>
        LET recs == RecordsFrom(last.err)
        IN  IF recs = <<>> THEN last.ret = last.err
            ELSE IF heap[Last(recs)].Cause = Nil THEN last.ret = Last(recs)
            ELSE /\ last.ret = heap[Last(recs)].Cause
                 /\ heap[last.ret].kind = "foreign"

C4_Witness ==
    /\ last.op = "Cause"
    /\ last.err = 3
    /\ RecordsFrom(3) = <<3, 2, 1>>
    /\ last.ret = 1

\* C8: a directive with the verb s and, of the flags + and #, only + renders
\* Full; one with the verb s and only # renders Short; every other directive,
\* and Error(), renders in the mode DefaultFormat holds when rendering.
C8_ModeSelection ==
    /\ last.op = "Format" =>
           LET d == last.directive
               full == formatFull(heap, last.err)
               short == formatShort(heap, last.err)
               only(f) == d.flags \cap {"+", "#"} = {f}
           IN  /\ (d.verb = "s" /\ only("+")) => last.ret.text = full
               /\ (d.verb = "s" /\ only("#")) => last.ret.text = short
               /\ ~(d.verb = "s" /\ (only("+") \/ only("#"))) =>
                      last.ret.text = IF DefaultFormat = FormatFull THEN full ELSE short
    /\ last.op = "Error" =>
           last.ret = IF DefaultFormat = FormatFull
                      THEN formatFull(heap, last.err)
                      ELSE formatShort(heap, last.err)

C8_Witness ==
    /\ last.op = "Format"
    /\ last.directive.verb = "s"
    /\ last.directive.flags = {"+", "#"}
    /\ DefaultFormat = FormatShort
    /\ last.ret.text = formatShort(heap, last.err)
    /\ formatShort(heap, last.err) # formatFull(heap, last.err)

\* C10, the state part: the cause of every record is nil or an error made
\* before the record, so no record reaches itself through causes.
CausesAreOlder ==
    \A i \in 1..Len(heap) :
        heap[i].kind = "Error" => heap[i].Cause \in 0..(i - 1)

\* C10, the step part: no call changes or removes an error already made.
RecordsAreFrozen ==
    /\ Len(heap') >= Len(heap)
    /\ \A i \in 1..Len(heap) : heap'[i] = heap[i]

\* C10: after any sequence of constructor calls every record's cause is nil,
\* a foreign error or an older record (no cycles), and no later constructor,
\* walker or formatter call changes a record already made.
C10_AcyclicAndImmutable == [](CausesAreOlder) /\ [][RecordsAreFrozen]_vars

C10_Witness ==
    /\ last.op = "As"
    /\ last.ret
    /\ Len(heap) = 3
    /\ heap[3].kind = "Error"
    /\ heap[3].Cause = 2
    /\ heap[2].kind = "Error"
    /\ heap[2].Cause = 1

\* is sub a contiguous part of s
Contains(s, sub) ==
    \E i \in 0..(Len(s) - Len(sub)) : SubSeq(s, i + 1, i + Len(sub)) = sub

\* does piece start the text or follow a newline in it
OnNewLine(s, piece) == HasPrefix(s, piece) \/ Contains(s, <<NL>> \o piece)

Count(s, c) == Cardinality({i \in 1..Len(s) : s[i] = c})

EndsWithNewline(s) == s # <<>> /\ Last(s) = NL

RECURSIVE Flatten(_)
Flatten(ss) == IF ss = <<>> THEN <<>> ELSE Head(ss) \o Flatten(Tail(ss))

RECURSIVE JoinWith(_, _)
JoinWith(ss, sep) ==
    IF ss = <<>> THEN <<>>
    ELSE IF Len(ss) = 1 THEN Head(ss)
    ELSE Head(ss) \o <<sep>> \o JoinWith(Tail(ss), sep)

NonEmpty(ss) == SelectSeq(ss, LAMBDA x : x # <<>>)

\* the text of the latest rendering, and the mode it was asked in
Rendered == IF last.op = "Format" THEN last.ret.text ELSE last.ret

RenderedFull ==
    \/ last.op = "Format" /\ last.directive.verb = "s" /\ last.directive.flags = {"+"}
    \/ last.op = "Error" /\ DefaultFormat = FormatFull

RenderedShort ==
    last.op = "Format" /\ last.directive.verb = "s" /\ last.directive.flags = {"#"}

\* the simplified names of the call sites, as the comment of Create gives them
\* (errors.go 97-99): "pkg.(*PtrReceiver).MethodName" is PtrReceiver.MethodName
DeclaredName(site) ==
    CASE site = MethodSite -> <<"T", ".", "M">>
      [] site = FuncSite -> <<"N">>
      [] OTHER -> <<>>

\* the two lines of a link in Full rendering, as C5 gives them
LinkLines(e, outermost) ==
    (IF outermost THEN <<>> ELSE <<NL, CausedBy>>) \o heap[e].Message
    \o <<NL, At>> \o heap[e].File \o <<":">> \o Itoa(heap[e].Line)
    \o <<" (">> \o heap[e].Function \o <<")", Dashes>>

FullLines(recs) == Flatten([i \in 1..Len(recs) |-> LinkLines(recs[i], i = 1)])

\* a chain of library records only, each with a message and a whole origin
WholeChain(recs) ==
    /\ recs # <<>>
    /\ heap[Last(recs)].Cause = Nil
    /\ \A e \in Range(recs) :
           heap[e].Message # <<>> /\ heap[e].File # <<>> /\ heap[e].Function # <<>>

\* the record New or Propagate made carries the site of its caller
OriginIsCallSite ==
    (last.op \in {"New", "Propagate"} /\ last.ret # Nil /\ last.callers # <<>>) =>
        LET site == Head(last.callers)
        IN  /\ heap[last.ret].File = StripPath(GOPATH, site.file)
            /\ heap[last.ret].Line = site.line
            /\ heap[last.ret].Function = DeclaredName(site)

\* C5 as stated: a chain of records with non-empty messages and whole origins
\* renders in Full as, per link, the message line (after "Caused by: " for
\* all but the outermost) and the line " --- at file:line (function) ---",
\* joined by single newlines; each origin is the call site of New / Propagate.
C5_FullOfWholeChain ==
    /\ (RenderedFull /\ WholeChain(RecordsFrom(last.err))) =>
           Rendered = FullLines(RecordsFrom(last.err))
    /\ OriginIsCallSite

\* C5 amended: the same, for messages that do not end with a newline.
C5_FullOfWholeChainNoNewline ==
    /\ ( /\ RenderedFull
         /\ WholeChain(RecordsFrom(last.err))
         /\ \A e \in Range(RecordsFrom(last.err)) : ~EndsWithNewline(heap[e].Message) ) =>
           Rendered = FullLines(RecordsFrom(last.err))
    /\ OriginIsCallSite

C5_Witness ==
    /\ last.op = "Format"
    /\ RenderedFull
    /\ Len(RecordsFrom(last.err)) = 3
    /\ WholeChain(RecordsFrom(last.err))
    /\ \A e \in Range(RecordsFrom(last.err)) : ~EndsWithNewline(heap[e].Message)
    /\ heap[last.err].Function = <<"T", ".", "M">>
    /\ Rendered = FullLines(RecordsFrom(last.err))

\* the messages of the records of a chain, and the text of the foreign cause
\* that ends it (if one does)
Messages(recs) == [i \in 1..Len(recs) |-> heap[recs[i]].Message]

ForeignCause(recs) == heap[Last(recs)].Cause

\* C6 as stated: Short rendering is the non-empty messages joined by ": ",
\* followed, when the innermost record has a foreign cause, by ": " and the
\* cause's text.
C6_ShortAppendsColonText ==
    RenderedShort =>
        LET recs == RecordsFrom(last.err)
        IN  Rendered = JoinWith(NonEmpty(Messages(recs)), ColonSpace)
                       \o (IF ForeignCause(recs) # Nil
                           THEN <<ColonSpace>> \o heap[ForeignCause(recs)].text
                           ELSE <<>>)

\* C6 amended: Short rendering is the non-empty texts among the messages and
\* the foreign cause's text, joined by ": " (the cause's text gets a separator
\* only when it and the text before it are both non-empty).
C6_ShortJoinsNonEmpty ==
    RenderedShort =>
        LET recs == RecordsFrom(last.err)
            texts == IF ForeignCause(recs) # Nil
                     THEN Messages(recs) \o <<heap[ForeignCause(recs)].text>>
                     ELSE Messages(recs)
        IN  Rendered = JoinWith(NonEmpty(texts), ColonSpace)

C6_Witness ==
    /\ RenderedShort
    /\ Len(RecordsFrom(last.err)) = 2
    /\ heap[last.err].Message # <<>>
    /\ heap[heap[last.err].Cause].Message = <<>>
    /\ ForeignCause(RecordsFrom(last.err)) # Nil
    /\ heap[ForeignCause(RecordsFrom(last.err))].text # <<>>

\* the text Full rendering puts after "Caused by: " for a cause
CauseText(c) == IF heap[c].kind = "Error" THEN heap[c].Message ELSE heap[c].text

\* the records of a chain that have a cause, and those whose cause is named
Caused(recs) == {e \in Range(recs) : heap[e].Cause # Nil}

Named(recs) == {e \in Caused(recs) : CauseText(heap[e].Cause) # <<>> \/ heap[heap[e].Cause].kind = "foreign"}

\* C9 as stated: in Full rendering every link with a cause is followed, on a
\* new line, by "Caused by: " and the next record's message or the foreign
\* cause's text, which then ends the rendering; no rendering ends in a newline.
C9_CausedByForEveryCause ==
    RenderedFull =>
        LET recs == RecordsFrom(last.err)
        IN  /\ \A e \in Caused(recs) :
                   OnNewLine(Rendered, <<CausedBy>> \o CauseText(heap[e].Cause))
            /\ ForeignCause(recs) # Nil =>
                   HasSuffix(Rendered, <<CausedBy>> \o heap[ForeignCause(recs)].text)
            /\ ~EndsWithNewline(Rendered)

\* C9 amended: "Caused by: " and the cause's text follow, on a new line, every
\* link whose cause is a foreign error or a record with a non-empty message,
\* and no other link; a foreign cause's text ends the rendering; the rendering
\* ends in a newline only if the foreign cause's text does, or if the innermost
\* record has no cause, no origin and a message that is empty or ends in one.
C9_CausedByForNamedCauses ==
    RenderedFull =>
        LET recs == RecordsFrom(last.err)
            inner == Last(recs)
        IN  /\ \A e \in Named(recs) :
                   OnNewLine(Rendered, <<CausedBy>> \o CauseText(heap[e].Cause))
            /\ Count(Rendered, CausedBy) = Cardinality(Named(recs))
            /\ ForeignCause(recs) # Nil =>
                   HasSuffix(Rendered, <<CausedBy>> \o heap[ForeignCause(recs)].text)
            /\ EndsWithNewline(Rendered) =>
                   \/ /\ ForeignCause(recs) # Nil
                      /\ EndsWithNewline(heap[ForeignCause(recs)].text)
                   \/ /\ heap[inner].Cause = Nil
                      /\ heap[inner].File = <<>>
                      /\ heap[inner].Message = <<>> \/ EndsWithNewline(heap[inner].Message)

C9_Witness ==
    /\ last.op = "Format"
    /\ RenderedFull
    /\ Len(RecordsFrom(last.err)) = 3
    /\ ForeignCause(RecordsFrom(last.err)) = Nil
    /\ heap[heap[last.err].Cause].Message = <<>>
    /\ Cardinality(Named(RecordsFrom(last.err))) = 1
    /\ Count(Rendered, CausedBy) = 1

\* the source roots GOPATH configures: the src directory of each entry
Roots == {Join(SplitList(GOPATH)[i], SrcDir) : i \in 1..Len(SplitList(GOPATH))}

\* C7: StripPath removes from a path under a configured root R the prefix
\* "R/", the longest such root when several match, and returns any other path
\* unchanged.
C7_StripsLongestRoot ==
    last.op = "StripPath" =>
        LET under == {r \in Roots : HasPrefix(last.p, r \o <<PathSeparator>>)}
        IN  IF under = {} THEN last.ret = last.p
            ELSE last.ret = SliceFrom(last.p, MaxOf({Len(r) : r \in under}) + 1)

====
